---- MODULE Spec2Model ----
(***************************************************************************)
(* A model of astroView/main.py: class AsteroidVisualizer with its three   *)
(* public operations                                                       *)
(*    get_heliocentric_position    (main.py 20-35)                         *)
(*    plot_heliocentric_orbits_3D  (main.py 37-101)                        *)
(*    visualize_skyview            (main.py 103-149)                       *)
(* One call is modelled from entry to return (or to the exception that     *)
(* ends it).  The remote JPL Horizons service and the local ephemeris are  *)
(* collaborators: what they answer is chosen nondeterministically.         *)
(*                                                                         *)
(* Units: instants are Julian dates counted in half days (a Julian date at *)
(* 0h UTC ends in .5); positions are tenths of an astronomical unit;       *)
(* angles in degrees are integers, angles in radians are micro-radians.    *)
(***************************************************************************)
EXTENDS Integers, Sequences, FiniteSets, TLC

VARIABLES
    op,           \* the public operation that was called
    pc,           \* the position inside that operation
    error,        \* "none", or the exception that ended the call
    queries,      \* the requests sent to the remote service, in order, each
                  \* with the answer it got
    target_name,  \* get_heliocentric_position: argument
    dates_utc,    \* get_heliocentric_position: argument, a list of (y, m, d)
    jd_times,     \* get_heliocentric_position: local of line 32
    id_type,      \* get_heliocentric_position: argument
    ret,          \* get_heliocentric_position: the returned (x, y, z)
    object_id,    \* plot_heliocentric_orbits_3D: argument
    start,        \* plot_heliocentric_orbits_3D: argument, (y, m, d)
    stop,         \* plot_heliocentric_orbits_3D: argument, (y, m, d)
    step,         \* plot_heliocentric_orbits_3D: argument, "12h" | "1d" | "2d"
    obj_vectors,  \* plot_heliocentric_orbits_3D: local of line 51
    days,         \* plot_heliocentric_orbits_3D: local of line 62
    pos,          \* plot_heliocentric_orbits_3D: local of line 64
    fig,          \* plot_heliocentric_orbits_3D: the figure's traces
    objects,      \* visualize_skyview: argument
    obs_code,     \* visualize_skyview: argument
    obs_time_utc, \* visualize_skyview: argument; the date of the instant
    positions,    \* visualize_skyview: the dict of line 118, insertion order
    panels,       \* visualize_skyview: whether plt.subplots made the panels
    ax_sky,       \* visualize_skyview: the points plotted on "Above Horizon"
    ax_ground,    \* visualize_skyview: the points plotted on "Below Horizon"
    shown         \* visualize_skyview: whether plt.show() was called

vars == <<op, pc, error, queries, target_name, dates_utc, id_type, jd_times, ret,
          object_id, start, stop, step, obj_vectors, days, pos, fig,
          objects, obs_code, obs_time_utc, positions, panels, ax_sky, ax_ground,
          shown>>

getVars  == <<target_name, dates_utc, id_type, jd_times, ret>>
plotVars == <<object_id, start, stop, step, obj_vectors, days, pos, fig>>
skyVars  == <<objects, obs_code, obs_time_utc, positions, panels, ax_sky,
              ax_ground, shown>>

-----------------------------------------------------------------------------
(* Bounds of the model.                                                    *)

MaxDates    == 2    \* longest dates_utc list
MaxSpanDays == 2    \* longest stop - start, in days
MaxObjects  == 2    \* longest objects list

(* Input samples. *)

TargetIds == {"Ceres", "301"}
SkyIds    == {"Sun", "301", "Moon"}
IdTypes   == {"smallbody", "majorbody"}
ObsCodes  == {"500"}
Steps     == {"12h", "1d", "2d"}

\* Two well-formed dates, a day that does not exist, a month that does not.
DateInputs == {<<2025, 1, 1>>, <<2025, 1, 2>>, <<2025, 2, 30>>, <<2025, 13, 1>>}

\* Start dates of the orbit view; from the second one the window crosses
\* the end of the month.
StartDates == {<<2025, 1, 1>>, <<2025, 1, 31>>}

\* Position vectors, in tenths of an AU (the rows of the test's mock table).
Vecs == {<<-15, 25, 5>>, <<-14, 26, 4>>}

\* Instants of observation of the sky view (the time of day is left out);
\* the second one does not parse.
ObsTimes == {<<2025, 8, 5>>, <<2025, 2, 30>>}

\* Altitudes and azimuths the service may report, in degrees.
Alts == {-90, -15, 0, 30, 90}
Azs  == {120, 280}

-----------------------------------------------------------------------------
(* Calendar and time.                                                      *)

TicksPerDay == 2

IsLeap(y) == (y % 4 = 0 /\ y % 100 # 0) \/ y % 400 = 0

DaysInMonth(y, m) ==
    IF m \in {4, 6, 9, 11} THEN 30
    ELSE IF m = 2 THEN (IF IsLeap(y) THEN 29 ELSE 28)
    ELSE 31

\* Time(f"{y}-{m:02d}-{d:02d}", format='iso') accepts the string.
WellFormed(date) ==
    /\ date[1] \in 1..9999
    /\ date[2] \in 1..12
    /\ date[3] \in 1..DaysInMonth(date[1], date[2])

\* Julian day number of the civil day (y, m, d); linear in d, so that a day
\* past the end of the month runs on into the next one.
JDN(y, m, d) ==
    LET a  == (14 - m) \div 12
        yy == y + 4800 - a
        mm == m + 12 * a - 3
    IN  d + (153 * mm + 2) \div 5 + 365 * yy + yy \div 4 - yy \div 100
          + yy \div 400 - 32045

\* The Julian date of (y, m, d) at 0h UTC, in half days.
JD(y, m, d) == TicksPerDay * JDN(y, m, d) - 1

\* The length of a step of the range query, in half days.
StepTicks(s) == CASE s = "12h" -> 1
                  [] s = "1d"  -> 2
                  [] s = "2d"  -> 4

\* The civil date `n` days after `date`, for the dates of StartDates.
AddDays(date, n) ==
    LET d == date[3] + n
        l == DaysInMonth(date[1], date[2])
    IN  IF d <= l THEN <<date[1], date[2], d>>
        ELSE <<date[1], date[2] + 1, d - l>>

-----------------------------------------------------------------------------
(* The remote service (astroquery.jplhorizons.Horizons).                   *)

\* The origin the service measures from, for a `location` the code sends.
\* A bare site code is a site on the Earth: '500' is the geocenter (the
\* docstring of visualize_skyview says so); '@sun' is the Sun's centre.
Center(location) == CASE location = "@sun" -> "Sun"
                      [] location = "500"  -> "Geocenter"
                      [] OTHER             -> "Site"

\* The epochs of a range query {'start', 'stop', 'step'}: start, start + step,
\* ... up to stop.
RangeEpochs(from, to, s) ==
    LET n == (JD(to[1], to[2], to[3]) - JD(from[1], from[2], from[3]))
                 \div StepTicks(s) + 1
    IN  [i \in 1..n |-> JD(from[1], from[2], from[3]) + (i - 1) * StepTicks(s)]

\* The tables vectors() may return for a list of epochs: one row an epoch.
VectorTables(epochs) ==
    { [i \in 1..Len(epochs) |->
          [datetime_jd |-> epochs[i], x |-> vs[i][1], y |-> vs[i][2],
           z |-> vs[i][3]]] : vs \in [1..Len(epochs) -> Vecs] }

\* The tables ephemerides() may return for one epoch: one row.
EphemerisTables == { <<[EL |-> alt, AZ |-> az]>> : alt \in Alts, az \in Azs }

\* A request as it is logged: what was asked, and what came back.
Query(kind, id, idtype, location, epochs, ok, answer) ==
    [kind |-> kind, id |-> id, id_type |-> idtype, location |-> location,
     epochs |-> epochs, ok |-> ok, answer |-> answer]

\* eph['x'], eph['y'], eph['z']: a column of a table.
Column(table, c) == [i \in 1..Len(table) |-> table[i][c]]

-----------------------------------------------------------------------------
(* get_heliocentric_position (main.py 20-35).                              *)

\* Line 32 looking at the first date only.
FirstDateConverts(dates) == WellFormed(dates[1])

\* The list comprehension of line 32 ends without an exception.
DatesConvert(dates) == \A i \in 1..Len(dates) : WellFormed(dates[i])

\* Line 32: every date becomes a Julian date, or Time() raises.
GetConvertDates ==
    /\ op = "get_heliocentric_position" /\ pc = "line32"
    /\ IF DatesConvert(dates_utc)
         THEN /\ jd_times' = [i \in 1..Len(dates_utc) |->
                                JD(dates_utc[i][1], dates_utc[i][2], dates_utc[i][3])]
              /\ pc' = "line33"
              /\ error' = error
         ELSE /\ error' = "InvalidDateError"
              /\ pc' = "raised"
              /\ jd_times' = jd_times
    /\ UNCHANGED <<op, queries, target_name, dates_utc, id_type, ret, plotVars,
                   skyVars>>

\* Line 35 with the sign flip of line 68.
ReturnedNegated(eph) ==
    << [i \in 1..Len(eph) |-> 0 - eph[i].x],
       [i \in 1..Len(eph) |-> 0 - eph[i].y],
       [i \in 1..Len(eph) |-> 0 - eph[i].z] >>

\* What line 35 returns from the table of line 34.
Returned(eph) == <<Column(eph, "x"), Column(eph, "y"), Column(eph, "z")>>

\* Lines 33-35: the query is sent, the table comes back, its columns are
\* returned.
GetQuery ==
    /\ op = "get_heliocentric_position" /\ pc = "line33"
    /\ \E eph \in VectorTables(jd_times) :
          /\ queries' = Append(queries,
                 Query("vectors", target_name, id_type, "500", jd_times, TRUE, eph))
          /\ ret' = Returned(eph)
    /\ pc' = "returned"
    /\ UNCHANGED <<op, error, target_name, dates_utc, id_type, jd_times,
                   plotVars, skyVars>>

\* Line 34: the service fails, and the exception goes to the caller.
GetQueryFails ==
    /\ op = "get_heliocentric_position" /\ pc = "line33"
    /\ queries' = Append(queries,
           Query("vectors", target_name, id_type, "500", jd_times, FALSE, <<>>))
    /\ error' = "ProviderError"
    /\ pc' = "raised"
    /\ UNCHANGED <<op, target_name, dates_utc, id_type, jd_times, ret,
                   plotVars, skyVars>>

-----------------------------------------------------------------------------
(* plot_heliocentric_orbits_3D (main.py 37-101).                           *)

\* Lines 49-51: the range query, measured from '@sun'.
PlotQuery ==
    /\ op = "plot_heliocentric_orbits_3D" /\ pc = "line49"
    /\ \E tab \in VectorTables(RangeEpochs(start, stop, step)) :
          /\ queries' = Append(queries,
                 Query("vectors", object_id, "default", "@sun",
                       RangeEpochs(start, stop, step), TRUE, tab))
          /\ obj_vectors' = tab
    /\ pc' = "line53"
    /\ UNCHANGED <<op, error, getVars, object_id, start, stop, step, days, pos,
                   fig, skyVars>>

\* Line 51: the service fails, and the exception goes to the caller.
PlotQueryFails ==
    /\ op = "plot_heliocentric_orbits_3D" /\ pc = "line49"
    /\ queries' = Append(queries,
           Query("vectors", object_id, "default", "@sun",
                 RangeEpochs(start, stop, step), FALSE, <<>>))
    /\ error' = "ProviderError"
    /\ pc' = "raised"
    /\ UNCHANGED <<op, getVars, plotVars, skyVars>>

\* Lines 58-62: ts.utc(year, month, range(day, day + num_days)): as many
\* consecutive civil days, from the start date on, as the table has rows.
TimeAxis(from, num_days) ==
    [i \in 1..num_days |-> JD(from[1], from[2], from[3] + (i - 1))]

\* Lines 53-62.
PlotTimeAxis ==
    /\ op = "plot_heliocentric_orbits_3D" /\ pc = "line53"
    /\ days' = TimeAxis(start, Len(obj_vectors))
    /\ pc' = "line64"
    /\ UNCHANGED <<op, error, queries, getVars, object_id, start, stop, step,
                   obj_vectors, pos, fig, skyVars>>

\* Line 64: the local ephemeris gives the Sun's apparent position seen from
\* the Earth at every instant of `days`: an array of three rows.
PlotEarth ==
    /\ op = "plot_heliocentric_orbits_3D" /\ pc = "line64"
    /\ \E vs \in [1..Len(days) -> Vecs] :
          pos' = << [i \in 1..Len(days) |-> vs[i][1]],
                    [i \in 1..Len(days) |-> vs[i][2]],
                    [i \in 1..Len(days) |-> vs[i][3]] >>
    /\ pc' = "line65"
    /\ UNCHANGED <<op, error, queries, getVars, object_id, start, stop, step,
                   obj_vectors, days, fig, skyVars>>

\* Lines 65 and 68 without the minus signs.
NoNeg(a) == a

\* The unary minus of lines 65 and 68, on an array.
Neg(a) == [i \in 1..Len(a) |-> 0 - a[i]]

Trace(name, mode, x, y, z) ==
    [name |-> name, mode |-> mode, x |-> x, y |-> y, z |-> z]

\* The add_trace calls in another order: the Sun after the two markers.
FigureSunLast(id, x, y, z, x2, y2, z2) ==
    << Trace("Earth Orbit", "lines", x, y, z),
       Trace(id \o " Orbit", "lines", x2, y2, z2),
       Trace("Earth (Start of Year)", "markers", <<x[1]>>, <<y[1]>>, <<z[1]>>),
       Trace(id \o " (Start of Year)", "markers", <<x2[1]>>, <<y2[1]>>,
             <<z2[1]>>),
       Trace("Sun", "markers", <<0>>, <<0>>, <<0>>) >>

\* Lines 66, 69 and 71-88: the first samples, and the five traces in the
\* order of the add_trace calls.
Figure(id, x, y, z, x2, y2, z2) ==
    << Trace("Earth Orbit", "lines", x, y, z),
       Trace(id \o " Orbit", "lines", x2, y2, z2),
       Trace("Sun", "markers", <<0>>, <<0>>, <<0>>),
       Trace("Earth (Start of Year)", "markers", <<x[1]>>, <<y[1]>>, <<z[1]>>),
       Trace(id \o " (Start of Year)", "markers", <<x2[1]>>, <<y2[1]>>,
             <<z2[1]>>) >>

\* Lines 65-101.  x[0] of an empty array raises IndexError.
PlotAssemble ==
    /\ op = "plot_heliocentric_orbits_3D" /\ pc = "line65"
    /\ IF Len(obj_vectors) = 0
         THEN /\ error' = "IndexError"
              /\ pc' = "raised"
              /\ fig' = fig
         ELSE /\ fig' = Figure(object_id,
                               Neg(pos[1]), Neg(pos[2]), Neg(pos[3]),
                               Neg(Column(obj_vectors, "x")),
                               Neg(Column(obj_vectors, "y")),
                               Neg(Column(obj_vectors, "z")))
              /\ pc' = "returned"
              /\ error' = error
    /\ UNCHANGED <<op, queries, getVars, object_id, start, stop, step,
                   obj_vectors, days, pos, skyVars>>

-----------------------------------------------------------------------------
(* visualize_skyview (main.py 103-149).                                    *)

\* Lines 115-116: Time(obs_time_utc) parses, or raises.
SkyParseTime ==
    /\ op = "visualize_skyview" /\ pc = "line115"
    /\ IF WellFormed(obs_time_utc)
         THEN pc' = "line119" /\ error' = error
         ELSE pc' = "raised" /\ error' = "InvalidDateError"
    /\ UNCHANGED <<op, queries, getVars, plotVars, skyVars>>

epoch_jd == JD(obs_time_utc[1], obs_time_utc[2], obs_time_utc[3])

\* positions[obj] = value, on a dict kept as the list of its items in
\* insertion order: a key already there keeps its place.
DictSet(dict, key, value) ==
    IF \E j \in 1..Len(dict) : dict[j][1] = key
    THEN [j \in 1..Len(dict) |->
             IF dict[j][1] = key THEN <<key, value>> ELSE dict[j]]
    ELSE Append(dict, <<key, value>>)

\* Line 124 moved above the loop of line 119.
FigureFirst == TRUE

\* The for loop of line 119 has gone through `objects`: one query an object.
QueriesDone == Len(queries) = Len(objects)

\* Lines 119-122, one turn of the loop: the query for the next object, and
\* its altitude and azimuth into `positions`.
SkyQuery ==
    /\ op = "visualize_skyview" /\ pc = "line119"
    /\ Len(queries) < Len(objects)
    /\ LET obj == objects[Len(queries) + 1] IN
        \E eph \in EphemerisTables :
          /\ queries' = Append(queries,
                 Query("ephemerides", obj, "default", obs_code, <<epoch_jd>>,
                       TRUE, eph))
          /\ positions' = DictSet(positions, obj, <<eph[1].EL, eph[1].AZ>>)
    /\ UNCHANGED <<op, pc, error, getVars, plotVars, objects, obs_code,
                   obs_time_utc, panels, ax_sky, ax_ground, shown>>

\* Line 121: the service fails for the next object, and the exception goes
\* to the caller.
SkyQueryFails ==
    /\ op = "visualize_skyview" /\ pc = "line119"
    /\ Len(queries) < Len(objects)
    /\ queries' = Append(queries,
           Query("ephemerides", objects[Len(queries) + 1], "default", obs_code,
                 <<epoch_jd>>, FALSE, <<>>))
    /\ error' = "ProviderError"
    /\ pc' = "raised"
    /\ UNCHANGED <<op, getVars, plotVars, skyVars>>

\* Lines 124-134: the loop is over; the figure and its two panels are made.
SkyCreateFigure ==
    /\ op = "visualize_skyview" /\ pc = "line119"
    /\ QueriesDone
    /\ panels' = TRUE
    /\ pc' = "line137"
    /\ UNCHANGED <<op, error, queries, getVars, plotVars, objects, obs_code,
                   obs_time_utc, positions, ax_sky, ax_ground, shown>>

PiMicro == 3141593

\* np.deg2rad, to the micro-radian.
Deg2Rad(az) == (az * PiMicro) \div 180

\* Line 139 without abs().
RadiusNoAbs(alt) == 90 - alt

\* Line 139.
Radius(alt) == 90 - (IF alt < 0 THEN 0 - alt ELSE alt)

\* Line 141 with > for >=.
AboveStrict(alt) == alt > 0

\* Line 141: the test that sends a point to ax_sky.
Above(alt) == alt >= 0

\* Lines 136 and 140.
Color(obj) == CASE obj = "Sun" -> "orange"
                [] obj = "301" -> "gray"
                [] OTHER       -> "red"

\* The number of points plotted so far: the turns of the loop of line 137.
Plotted == Len(ax_sky) + Len(ax_ground)

\* Lines 137-144, one turn of the loop over positions.items().
SkyPlot ==
    /\ op = "visualize_skyview" /\ pc = "line137"
    /\ Plotted < Len(positions)
    /\ LET item  == positions[Plotted + 1]
           alt   == item[2][1]
           az    == item[2][2]
           point == [theta |-> Deg2Rad(az), r |-> Radius(alt),
                     color |-> Color(item[1]), label |-> item[1]]
       IN  IF Above(alt)
           THEN ax_sky' = Append(ax_sky, point) /\ ax_ground' = ax_ground
           ELSE ax_ground' = Append(ax_ground, point) /\ ax_sky' = ax_sky
    /\ UNCHANGED <<op, pc, error, queries, getVars, plotVars, objects,
                   obs_code, obs_time_utc, positions, panels, shown>>

\* Lines 146-149: the loop is over; legends, layout and plt.show().
SkyShow ==
    /\ op = "visualize_skyview" /\ pc = "line137"
    /\ Plotted = Len(positions)
    /\ shown' = TRUE
    /\ pc' = "returned"
    /\ UNCHANGED <<op, error, queries, getVars, plotVars, objects, obs_code,
                   obs_time_utc, positions, panels, ax_sky, ax_ground>>

-----------------------------------------------------------------------------
(* One call of one operation, with its arguments.                          *)

SeqsUpTo(S, lo, hi) == UNION { [1..n -> S] : n \in lo..hi }

InitCommon ==
    /\ error = "none" /\ queries = <<>>
    /\ jd_times = <<>> /\ ret = <<>>
    /\ obj_vectors = <<>> /\ days = <<>> /\ pos = <<>> /\ fig = <<>>
    /\ positions = <<>> /\ panels = FALSE
    /\ ax_sky = <<>> /\ ax_ground = <<>> /\ shown = FALSE

NoGetArgs  == target_name = "" /\ dates_utc = <<>> /\ id_type = ""
NoPlotArgs == object_id = "" /\ start = <<>> /\ stop = <<>> /\ step = ""
NoSkyArgs  == objects = <<>> /\ obs_code = "" /\ obs_time_utc = <<>>

InitGet ==
    /\ op = "get_heliocentric_position" /\ pc = "line32"
    /\ target_name \in TargetIds
    /\ dates_utc \in SeqsUpTo(DateInputs, 1, MaxDates)
    /\ id_type \in IdTypes
    /\ NoPlotArgs /\ NoSkyArgs

InitPlot ==
    /\ op = "plot_heliocentric_orbits_3D" /\ pc = "line49"
    /\ object_id \in TargetIds
    /\ start \in StartDates
    /\ stop \in { AddDays(start, n) : n \in 0..MaxSpanDays }
    /\ step \in Steps
    /\ NoGetArgs /\ NoSkyArgs

InitSky ==
    /\ op = "visualize_skyview" /\ pc = "line115"
    /\ objects \in SeqsUpTo(SkyIds, 0, MaxObjects)
    /\ obs_code \in ObsCodes
    /\ obs_time_utc \in ObsTimes
    /\ NoGetArgs /\ NoPlotArgs

Init == InitCommon /\ (InitGet \/ InitPlot \/ InitSky)

Next ==
    \/ GetConvertDates \/ GetQuery \/ GetQueryFails
    \/ PlotQuery \/ PlotQueryFails \/ PlotTimeAxis \/ PlotEarth \/ PlotAssemble
    \/ SkyParseTime \/ SkyQuery \/ SkyQueryFails \/ SkyCreateFigure
    \/ SkyPlot \/ SkyShow

Spec == Init /\ [][Next]_vars

-----------------------------------------------------------------------------
(* Properties.                                                             *)

IsGet  == op = "get_heliocentric_position"
IsPlot == op = "plot_heliocentric_orbits_3D"
IsSky  == op = "visualize_skyview"

\* The row the service returned for `obj`, the last time it was asked.
Reported(obj) ==
    LET js == { j \in 1..Len(queries) : queries[j].id = obj }
        j  == CHOOSE m \in js : \A n \in js : n <= m
    IN  queries[j].answer[1]

\* How many points of a panel carry the label `obj`.
PointsOf(ax, obj) == Cardinality({ j \in 1..Len(ax) : ax[j].label = obj })

Abs(n) == IF n < 0 THEN 0 - n ELSE n

\* C1: in visualize_skyview an object is never on both panels; a point on
\* 'Above Horizon' has altitude >= 0, a point on 'Below Horizon' altitude
\* < 0; and when the call returns every requested object has exactly one
\* point, on 'Above Horizon' iff its altitude is >= 0 (0 included), on
\* 'Below Horizon' iff its altitude is < 0.
C1_PartitionByAltitude ==
    IsSky =>
      \A k \in 1..Len(objects) :
        LET obj     == objects[k]
            nSky    == PointsOf(ax_sky, obj)
            nGround == PointsOf(ax_ground, obj)
        IN  /\ nSky + nGround <= 1
            /\ nSky = 1 => Reported(obj).EL >= 0
            /\ nGround = 1 => Reported(obj).EL < 0
            /\ pc = "returned" =>
                  /\ nSky + nGround = 1
                  /\ nSky = 1 <=> Reported(obj).EL >= 0
                  /\ nGround = 1 <=> Reported(obj).EL < 0

\* A sky view that returned with an object at altitude exactly 0 and
\* another one below the horizon.
C1_Witness ==
    /\ IsSky /\ pc = "returned"
    /\ \E k \in 1..Len(objects) : Reported(objects[k]).EL = 0
    /\ \E k \in 1..Len(objects) : Reported(objects[k]).EL < 0

\* C3: for every altitude in [-90, 90] the radius the plotting loop of
\* visualize_skyview computes is 90 - |altitude|, lies in [0, 90] and is
\* the same for a and -a (altitude 30 gives 60, altitude -15 gives 75);
\* every plotted point has that radius for the altitude the service
\* reported, and its angle is the reported azimuth in radians.
C3_PolarPoint ==
    /\ (IsSky /\ pc = "line137" /\ Plotted = 0) =>
         /\ \A a \in -90..90 :
               /\ Radius(a) = 90 - Abs(a)
               /\ Radius(a) \in 0..90
               /\ Radius(a) = Radius(0 - a)
         /\ Radius(30) = 60 /\ Radius(-15) = 75
    /\ IsSky =>
         \A p \in { ax_sky[j] : j \in 1..Len(ax_sky) }
                 \cup { ax_ground[j] : j \in 1..Len(ax_ground) } :
            /\ p.r = 90 - Abs(Reported(p.label).EL)
            /\ 180 * p.theta <= Reported(p.label).AZ * PiMicro
            /\ Reported(p.label).AZ * PiMicro < 180 * (p.theta + 1)

\* The test's two points: altitude 30, azimuth 120 above at radius 60 and
\* 2.094395 rad; altitude -15, azimuth 280 below at radius 75 and 4.886922
\* rad.
C3_Witness ==
    /\ IsSky /\ pc = "returned"
    /\ Len(ax_sky) = 1 /\ ax_sky[1].r = 60 /\ ax_sky[1].theta = 2094395
    /\ Len(ax_ground) = 1 /\ ax_ground[1].r = 75
    /\ ax_ground[1].theta = 4886922

\* C4: a figure of plot_heliocentric_orbits_3D for object X has exactly five
\* traces, in the order 'Earth Orbit', 'X Orbit', 'Sun', 'Earth (Start of
\* Year)', 'X (Start of Year)', and its 'Sun' trace is the one point
\* (0, 0, 0); a call that returns has such a figure.
C4_FiveTraces ==
    /\ (IsPlot /\ pc = "returned") => fig # <<>>
    /\ fig # <<>> =>
         /\ Len(fig) = 5
         /\ fig[1].name = "Earth Orbit"
         /\ fig[2].name = object_id \o " Orbit"
         /\ fig[3].name = "Sun"
         /\ fig[4].name = "Earth (Start of Year)"
         /\ fig[5].name = object_id \o " (Start of Year)"
         /\ fig[3].x = <<0>> /\ fig[3].y = <<0>> /\ fig[3].z = <<0>>

\* A figure returned for Ceres from series of more than one sample.
C4_Witness ==
    /\ IsPlot /\ pc = "returned" /\ object_id = "Ceres"
    /\ fig[2].name = "Ceres Orbit" /\ Len(fig[2].x) > 1

\* C5: in a figure of plot_heliocentric_orbits_3D each sample of the two
\* orbit lines is (-x, -y, -z) of the provider's raw sample at the same
\* index (the local ephemeris for the Earth, the service's table for the
\* target), and each 'Start of Year' marker is the first sample of its own
\* negated series.
C5_NegatedSeries ==
    (IsPlot /\ pc = "returned") =>
      LET raw == queries[1].answer IN
      /\ Len(fig[1].x) = Len(pos[1]) /\ Len(fig[1].y) = Len(pos[2])
      /\ Len(fig[1].z) = Len(pos[3])
      /\ \A i \in 1..Len(pos[1]) :
            /\ fig[1].x[i] + pos[1][i] = 0
            /\ fig[1].y[i] + pos[2][i] = 0
            /\ fig[1].z[i] + pos[3][i] = 0
      /\ Len(fig[2].x) = Len(raw) /\ Len(fig[2].y) = Len(raw)
      /\ Len(fig[2].z) = Len(raw)
      /\ \A i \in 1..Len(raw) :
            /\ fig[2].x[i] + raw[i].x = 0
            /\ fig[2].y[i] + raw[i].y = 0
            /\ fig[2].z[i] + raw[i].z = 0
      /\ fig[4].x = <<0 - pos[1][1]>> /\ fig[4].y = <<0 - pos[2][1]>>
      /\ fig[4].z = <<0 - pos[3][1]>>
      /\ fig[5].x = <<0 - raw[1].x>> /\ fig[5].y = <<0 - raw[1].y>>
      /\ fig[5].z = <<0 - raw[1].z>>

\* A figure whose series have several samples, the first of each differing
\* from the second, so that the marker is told from the other samples.
C5_Witness ==
    /\ IsPlot /\ pc = "returned"
    /\ Len(pos[1]) >= 2 /\ pos[1][1] # pos[1][2]
    /\ queries[1].answer[1].x # queries[1].answer[2].x
    /\ fig[5].x = <<15>> /\ fig[4].x = <<14>>

\* C6: get_heliocentric_position returns the x, y and z columns of the
\* table the service returned: three sequences of the table's length, the
\* values in the table's order and with the table's signs.
C6_ReturnedUnmodified ==
    (IsGet /\ pc = "returned") =>
      LET eph == queries[1].answer IN
      /\ Len(ret) = 3
      /\ Len(eph) = Len(dates_utc)
      /\ \A c \in 1..3 : Len(ret[c]) = Len(eph)
      /\ \A i \in 1..Len(eph) :
            /\ ret[1][i] = eph[i].x
            /\ ret[2][i] = eph[i].y
            /\ ret[3][i] = eph[i].z

\* The test's case: two dates, and the mock table's columns come back.
C6_Witness ==
    /\ IsGet /\ pc = "returned"
    /\ dates_utc = << <<2025, 1, 1>>, <<2025, 1, 2>> >>
    /\ ret = << <<-15, -14>>, <<25, 26>>, <<5, 4>> >>

\* C7: in visualize_skyview, once a query has failed the call has ended
\* with that failure, with no panels made, no point plotted and nothing
\* shown; and whenever a panel exists, a point is plotted or the figure is
\* shown, every object has been queried and every query succeeded.
C7_SkyAllOrNothing ==
    IsSky =>
      /\ (\E j \in 1..Len(queries) : ~queries[j].ok) =>
            /\ pc = "raised" /\ error = "ProviderError"
            /\ ~panels /\ ax_sky = <<>> /\ ax_ground = <<>> /\ ~shown
      /\ (panels \/ ax_sky # <<>> \/ ax_ground # <<>> \/ shown) =>
            /\ Len(queries) = Len(objects)
            /\ \A j \in 1..Len(queries) : queries[j].ok

\* The query of the second object failed after the first one succeeded.
C7_Witness ==
    /\ IsSky /\ pc = "raised"
    /\ Len(queries) = 2 /\ queries[1].ok /\ ~queries[2].ok
    /\ Len(positions) = 1

\* The dates of DateInputs that are no calendar dates.
Malformed == {<<2025, 2, 30>>, <<2025, 13, 1>>}

\* C8: when a date of the list is malformed or out of range,
\* get_heliocentric_position ends with the invalid-date failure, has sent
\* no query to the service and returns nothing.
C8_InvalidDateNoQuery ==
    (IsGet /\ pc # "line32"
       /\ \E i \in 1..Len(dates_utc) : dates_utc[i] \in Malformed) =>
      /\ pc = "raised" /\ error = "InvalidDateError"
      /\ queries = <<>> /\ ret = <<>>

\* The call has ended on a list whose first date is good and whose second
\* is not.
C8_Witness ==
    /\ IsGet /\ pc = "raised"
    /\ dates_utc = << <<2025, 1, 1>>, <<2025, 2, 30>> >>

\* C9: once the time axis of plot_heliocentric_orbits_3D is built, the
\* Earth's axis and the target's table have the same length, and for every
\* index the Earth's instant is the epoch of the target's row, whatever
\* the step.
C9_CommonTimeAxis ==
    (IsPlot /\ pc \in {"line64", "line65", "returned"}) =>
      /\ Len(days) = Len(obj_vectors)
      /\ \A i \in 1..Len(days) : days[i] = obj_vectors[i].datetime_jd

\* C10: every vectors query sent to the service asks for positions
\* measured from the Sun.
C10_VectorsFromSun ==
    \A j \in 1..Len(queries) :
      queries[j].kind = "vectors" => Center(queries[j].location) = "Sun"

====
